---- MODULE Spec2Model ----
(***************************************************************************)
(* Voice Guardian API server (src/src/index.ts): the POST /api/transcribe  *)
(* pipeline.  One request at a time travels                                *)
(*   multer upload.single('audio')  ->  route handler  ->  axios.post      *)
(*   -> continuation after the await (success path or catch block),        *)
(* or leaves through the error-handling middleware.  The file system and   *)
(* the upstream inference API are the environment: their outcomes are      *)
(* drawn nondeterministically.                                             *)
(*                                                                         *)
(* Optional JavaScript values are modelled as sequences of length 0 or 1:  *)
(* <<>> is undefined / an absent field, <<v>> is the value v.              *)
(***************************************************************************)
EXTENDS Integers, Sequences, FiniteSets, TLC

VARIABLES
    HF_API_TOKEN,   \* process.env.HF_API_TOKEN: "" when not configured
    pc,             \* where the request in flight stands
    req,            \* the incoming request: multipart part and query string
    reqFile,        \* req.file as the route handler sees it
    tempFile,       \* the file at req.file.path: "none", "exists", "deleted"
    middlewareError,\* the error multer handed to next(err)
    readResult,     \* fs.readFileSync(tempFilePath): "none", "ok", "threw"
    outbound,       \* the axios.post calls issued for this request, in order
    upstream,       \* how the awaited axios.post settled
    caught,         \* the error the handler's catch block received
    unlinkLog,      \* the fs.unlinkSync calls of this request: "ok" / "threw"
    response,       \* the response sent to the caller
    served          \* requests answered so far

vars == << HF_API_TOKEN, pc, req, reqFile, tempFile, middlewareError, readResult,
           outbound, upstream, caught, unlinkLog, response, served >>

----------------------------------------------------------------------------
(* Bounds of the model *)

MaxRequests == 2

----------------------------------------------------------------------------
(* Values the environment can supply *)

Mime(t, s) == [type |-> t, subtype |-> s]

\* file.mimetype is a string "type/subtype"; the empty string is NoMime
NoMime == Mime("", "")

MimeTypes ==
    { NoMime, Mime("audio", "wav"), Mime("audio", "webm"),
      Mime("application", "octet-stream"), Mime("text", "plain") }

\* filename extensions (the text after the last dot; "" when there is no dot)
Extensions == { "", "mp3", "MP3", "wav", "ogg", "m4a", "aac", "flac", "FLAC", "txt" }

\* the filename before its last dot; "" for a name that begins with its only dot
\* (".mp3")
Stems == { "clip", "" }

FieldNames == { "audio", "file" }

\* ?model=... ; <<>> when the parameter is absent
ModelQueries ==
    { <<>>, <<"">>, <<"whisper-large">>, <<"whisper-large-turbo">>,
      <<"whisper-tiny">>, <<"constructor">>, <<"toString">> }

Tokens == { "", "hf_secret" }

\* limits.fileSize
FileSizeLimit == 100 * 1024 * 1024

FileSizes == { 1024, FileSizeLimit, FileSizeLimit + 1 }

\* multer attaches a file part only when it carries a (non-empty) filename
Files ==
    { f \in [ fieldname : FieldNames, mimetype : MimeTypes,
              originalname : [stem : Stems, ext : Extensions], size : FileSizes ] :
          ~ (f.originalname.stem = "" /\ f.originalname.ext = "") }

\* the multipart part named by the request, if any, and the model query
Requests == [ part : {<<>>} \cup { <<f>> : f \in Files }, model : ModelQueries ]

NoRequest == [ part |-> <<>>, model |-> <<>> ]

\* HTTP statuses the upstream may answer with
UpstreamStatuses == { 200, 400, 401, 404, 429, 500, 503 }

\* error.response.data.error of the upstream's error body, when present
UpstreamDetails == { <<>>, <<"Model not found">> }

----------------------------------------------------------------------------
(* Pure functions of index.ts *)

\* String.prototype.toLowerCase on the extensions of the model
ToLower(ext) == IF ext = "MP3" THEN "mp3" ELSE IF ext = "FLAC" THEN "flac" ELSE ext

\* path.extname(originalname), without its dot: the text after the last dot, and
\* nothing for a name whose only dot is its first character
extname(originalname) == IF originalname.stem = "" THEN "" ELSE originalname.ext

\* file.mimetype.startsWith('audio/')
StartsWithAudio(mimetype) == mimetype.type = "audio"

\* file.originalname.match(/\.(mp3|wav|ogg|m4a|aac)$/i)
MatchesAudioExtension(originalname) ==
    ToLower(originalname.ext) \in { "mp3", "wav", "ogg", "m4a", "aac" }

\* multer's fileFilter option: TRUE is cb(null, true), FALSE is cb(new Error(...))
fileFilter(file) ==
    \/ (file.mimetype # NoMime /\ StartsWithAudio(file.mimetype))
    \/ file.fieldname = "audio"
    \/ MatchesAudioExtension(file.originalname)

\* a variant that compares the extension as written, without toLowerCase()
getAudioMimeTypeCaseSensitive(file) ==
    IF file.mimetype # NoMime /\ file.mimetype # Mime("application", "octet-stream")
    THEN file.mimetype
    ELSE LET ext == extname(file.originalname)
         IN  CASE ext = "mp3"  -> Mime("audio", "mpeg")
               [] ext = "wav"  -> Mime("audio", "wav")
               [] ext = "ogg"  -> Mime("audio", "ogg")
               [] ext = "m4a"  -> Mime("audio", "mp4")
               [] ext = "flac" -> Mime("audio", "flac")
               [] OTHER        -> Mime("audio", "wav")

getAudioMimeType(file) ==
    IF file.mimetype # NoMime /\ file.mimetype # Mime("application", "octet-stream")
    THEN file.mimetype
    ELSE LET ext == ToLower(extname(file.originalname))
         IN  CASE ext = "mp3"  -> Mime("audio", "mpeg")
               [] ext = "wav"  -> Mime("audio", "wav")
               [] ext = "ogg"  -> Mime("audio", "ogg")
               [] ext = "m4a"  -> Mime("audio", "mp4")
               [] ext = "flac" -> Mime("audio", "flac")
               [] OTHER        -> Mime("audio", "wav")

\* the object literal HF_MODELS: its own properties
HF_MODELS ==
    ( "whisper-large"       :> "openai/whisper-large-v3" @@
      "whisper-large-turbo" :> "openai/whisper-large-v3-turbo" )

\* An object literal inherits from Object.prototype: a property read with a key
\* that is not an own property still finds these members (functions, hence truthy).
\* The value is given in the form the template literal `${modelName}` prints.
ObjectPrototype ==
    ( "constructor" :> "function Object() { [native code] }" @@
      "toString"    :> "function toString() { [native code] }" )

\* obj[key] for an object literal: <<>> is undefined
PropertyRead(obj, key) ==
    IF key \in DOMAIN obj THEN << obj[key] >>
    ELSE IF key \in DOMAIN ObjectPrototype THEN << ObjectPrototype[key] >>
    ELSE <<>>

\* const modelKey = (req.query.model as string) || 'whisper-large';
\* const modelName = HF_MODELS[modelKey] || HF_MODELS['whisper-large'];
ResolveModel(query) ==
    LET modelKey  == IF query = <<>> \/ query = <<"">> THEN "whisper-large" ELSE query[1]
        modelName == PropertyRead(HF_MODELS, modelKey)
    IN  IF modelName # <<>> THEN modelName[1] ELSE HF_MODELS["whisper-large"]

----------------------------------------------------------------------------
(* Responses *)

NoResponse == <<>>

RetryAfterSeconds == 20

ErrorBody(httpStatus, error, details, retryAfter, status) ==
    [ status |-> httpStatus, success |-> FALSE, error |-> error, details |-> details,
      retryAfter |-> retryAfter, upstreamStatus |-> status, metadata |-> <<>> ]

\* res.json({ success: true, transcription, metadata }) of the success path
SuccessBody(modelName, file) ==
    [ status |-> 200, success |-> TRUE, error |-> "", details |-> "",
      retryAfter |-> <<>>, upstreamStatus |-> <<>>,
      metadata |-> << [ model |-> modelName, originalFilename |-> file.originalname,
                        fileSize |-> file.size, mimetype |-> file.mimetype ] >> ]

NoFileResponse ==
    ErrorBody(400, "No audio file uploaded",
              "Please provide an audio file in the request", <<>>, <<>>)

NoTokenResponse ==
    ErrorBody(500, "Server configuration error",
              "HuggingFace API token not configured", <<>>, <<>>)

(* Errors: [response, code, message]; response is <<>> or <<[status, data]>> *)

JsError(code, message) == [ response |-> <<>>, code |-> code, message |-> message ]

ReadError   == JsError("EIO", "EIO: i/o error, read")
UnlinkError == JsError("EPERM", "EPERM: operation not permitted, unlink")

----------------------------------------------------------------------------
(* The upstream inference API, as axios reports it *)

\* axios timeout option of the outbound call, in milliseconds
TimeoutMs == 60000

UpstreamOutcomes ==
    { [ kind |-> "response", status |-> s, detail |-> d ] :
          s \in UpstreamStatuses, d \in UpstreamDetails }
    \cup { [ kind |-> "timeout", status |-> 0, detail |-> <<>> ],
           [ kind |-> "network", status |-> 0, detail |-> <<>> ] }

\* axios resolves the promise on a 2xx status (default validateStatus)
Resolves(outcome) ==
    outcome.kind = "response" /\ outcome.status >= 200 /\ outcome.status < 300

\* the error axios rejects with
AxiosError(outcome) ==
    CASE outcome.kind = "response" ->
             [ response |-> << [ status |-> outcome.status, error |-> outcome.detail ] >>,
               code     |-> IF outcome.status >= 500 THEN "ERR_BAD_RESPONSE"
                                                     ELSE "ERR_BAD_REQUEST",
               message  |-> "Request failed with status code" ]
      [] outcome.kind = "timeout" ->
             JsError("ECONNABORTED", "timeout of 60000ms exceeded")
      [] OTHER ->
             JsError("ECONNREFUSED", "connect ECONNREFUSED")

----------------------------------------------------------------------------
(* The catch block's classification of the error (index.ts 166-204) *)

\* a variant that sends the retry hint with the rate-limit response as well
UpstreamErrorResponseRetryOn429(status, data) ==
    IF status = 401
    THEN ErrorBody(500, "Authentication failed",
                   "Invalid HuggingFace API token", <<>>, <<>>)
    ELSE IF status = 429 \/ status = 503
    THEN ErrorBody(status, IF status = 429 THEN "Rate limit exceeded" ELSE "Model loading",
                   "Please try again later.", << RetryAfterSeconds >>, <<>>)
    ELSE ErrorBody(500, "Transcription failed",
                   IF data.error # <<>> THEN data.error[1] ELSE "HuggingFace API error",
                   <<>>, << status >>)

\* the branch for an error that carries the upstream's response
UpstreamErrorResponse(status, data) ==
    IF status = 401
    THEN ErrorBody(500, "Authentication failed",
                   "Invalid HuggingFace API token", <<>>, <<>>)
    ELSE IF status = 429
    THEN ErrorBody(429, "Rate limit exceeded",
                   "Too many requests to HuggingFace API. Please try again later.",
                   <<>>, <<>>)
    ELSE IF status = 503
    THEN ErrorBody(503, "Model loading",
                   "The AI model is currently loading. Please try again in a few moments.",
                   << RetryAfterSeconds >>, <<>>)
    ELSE ErrorBody(500, "Transcription failed",
                   IF data.error # <<>> THEN data.error[1] ELSE "HuggingFace API error",
                   <<>>, << status >>)

\* a variant that takes every error without a response for a timeout
LocalErrorResponseAlwaysTimeout(error) ==
    ErrorBody(408, "Request timeout",
              "Transcription took too long. Please try with a shorter audio file.",
              <<>>, <<>>)

\* the branches for an error without a response
LocalErrorResponse(error) ==
    IF error.code = "ECONNABORTED"
    THEN ErrorBody(408, "Request timeout",
                   "Transcription took too long. Please try with a shorter audio file.",
                   <<>>, <<>>)
    ELSE ErrorBody(500, "Internal server error", error.message, <<>>, <<>>)

ErrorResponse(error) ==
    IF error.response # <<>>
    THEN UpstreamErrorResponse(error.response[1].status, error.response[1])
    ELSE LocalErrorResponse(error)

----------------------------------------------------------------------------
(* State *)

Init ==
    /\ HF_API_TOKEN \in Tokens
    /\ pc = "idle"
    /\ req = NoRequest
    /\ reqFile = <<>>
    /\ tempFile = "none"
    /\ middlewareError = <<>>
    /\ readResult = "none"
    /\ outbound = <<>>
    /\ upstream = <<>>
    /\ caught = <<>>
    /\ unlinkLog = <<>>
    /\ response = NoResponse
    /\ served = 0

\* the number of outbound calls made for the request in flight
upstreamCalls == Len(outbound)

\* A POST /api/transcribe request arrives
Arrive ==
    /\ pc = "idle"
    /\ served < MaxRequests
    /\ req' \in Requests
    /\ pc' = "multer"
    /\ UNCHANGED << HF_API_TOKEN, reqFile, tempFile, middlewareError, readResult,
                    outbound, upstream, caught, unlinkLog, response, served >>

\* MulterError(code) and the Error of the fileFilter, as next(err) receives them
MulterError(code) == [ multer |-> TRUE, code |-> code, message |-> code ]
FilterError == [ multer |-> FALSE, code |-> "", message |-> "Only audio files are allowed" ]

(* upload.single('audio'): no file part leaves req.file undefined; a file part   *)
(* under another field name is refused by multer itself (LIMIT_UNEXPECTED_FILE)  *)
(* before the fileFilter option is consulted; a part the fileFilter refuses, or  *)
(* one over limits.fileSize, ends in next(err); an accepted part is written to   *)
(* dest and becomes req.file.                                                    *)
Multer ==
    /\ pc = "multer"
    /\ IF req.part = <<>>
       THEN /\ pc' = "handler"
            /\ UNCHANGED << reqFile, tempFile, middlewareError >>
       ELSE LET file == req.part[1]
            IN  IF file.fieldname # "audio"
                THEN /\ middlewareError' = << MulterError("LIMIT_UNEXPECTED_FILE") >>
                     /\ pc' = "errorMiddleware"
                     /\ UNCHANGED << reqFile, tempFile >>
                ELSE IF ~ fileFilter(file)
                THEN /\ middlewareError' = << FilterError >>
                     /\ pc' = "errorMiddleware"
                     /\ UNCHANGED << reqFile, tempFile >>
                ELSE IF file.size > FileSizeLimit
                THEN /\ middlewareError' = << MulterError("LIMIT_FILE_SIZE") >>
                     /\ pc' = "errorMiddleware"
                     /\ UNCHANGED << reqFile, tempFile >>
                ELSE /\ reqFile' = << file >>
                     /\ tempFile' = "exists"
                     /\ pc' = "handler"
                     /\ UNCHANGED middlewareError
    /\ UNCHANGED << HF_API_TOKEN, req, readResult, outbound, upstream, caught,
                    unlinkLog, response, served >>

\* the error-handling middleware (index.ts 228-244)
ErrorMiddlewareResponse(error) ==
    IF error.multer /\ error.code = "LIMIT_FILE_SIZE"
    THEN ErrorBody(413, "File too large", "Audio file must be smaller than 100MB",
                   <<>>, <<>>)
    ELSE ErrorBody(500, "Internal server error", error.message, <<>>, <<>>)

ErrorMiddleware ==
    /\ pc = "errorMiddleware"
    /\ response' = << ErrorMiddlewareResponse(middlewareError[1]) >>
    /\ pc' = "responded"
    /\ UNCHANGED << HF_API_TOKEN, req, reqFile, tempFile, middlewareError, readResult,
                    outbound, upstream, caught, unlinkLog, served >>

----------------------------------------------------------------------------
(* The route handler (index.ts 87-206) *)

\* fs.unlinkSync(tempFilePath): it removes an existing file unless the file
\* system refuses (ok = FALSE), and throws when there is no file to remove
UnlinkResult(file, ok) == IF file = "exists" /\ ok THEN "ok" ELSE "threw"
UnlinkFile(file, ok)   == IF file = "exists" /\ ok THEN "deleted" ELSE file

\* a variant that tests the credential before the file
EarlyReturnTokenFirst(file, token) ==
    IF token = "" THEN << NoTokenResponse >>
    ELSE IF file = <<>> THEN << NoFileResponse >>
    ELSE <<>>

\* a variant without the credential test
EarlyReturnNoTokenCheck(file, token) ==
    IF file = <<>> THEN << NoFileResponse >> ELSE <<>>

\* the two early returns before the try block: <<>> when neither applies
EarlyReturn(file, token) ==
    IF file = <<>> THEN << NoFileResponse >>
    ELSE IF token = "" THEN << NoTokenResponse >>
    ELSE <<>>

\* a variant of the catch block that leaves the temp file alone
CatchBlockNoCleanup(error, log, unlinkOk) ==
    /\ caught' = << error >>
    /\ tempFile' = tempFile
    /\ unlinkLog' = log
    /\ response' = << ErrorResponse(error) >>
    /\ pc' = "responded"

\* the catch block: unlink inside its own try/catch, then the classified response;
\* log is the unlink history up to the throw
CatchBlock(error, log, unlinkOk) ==
    /\ caught' = << error >>
    /\ tempFile' = UnlinkFile(tempFile, unlinkOk)
    /\ unlinkLog' = Append(log, UnlinkResult(tempFile, unlinkOk))
    /\ response' = << ErrorResponse(error) >>
    /\ pc' = "responded"

\* the arguments of the axios.post call
OutboundCall(file, query, token) ==
    [ model         |-> ResolveModel(query),
      contentType   |-> getAudioMimeType(file),
      authorization |-> token,
      timeout       |-> TimeoutMs ]

(* The handler up to the await: the early returns, then inside the try block   *)
(* the file read and the axios.post call; a failed read goes to the catch      *)
(* block.                                                                      *)
TranscribeHandler ==
    /\ pc = "handler"
    /\ LET early == EarlyReturn(reqFile, HF_API_TOKEN)
       IN  IF early # <<>>
           THEN /\ response' = early
                /\ pc' = "responded"
                /\ UNCHANGED << tempFile, readResult, outbound, caught, unlinkLog >>
           ELSE \E readOk \in BOOLEAN, unlinkOk \in BOOLEAN :
                  IF readOk
                  THEN /\ readResult' = "ok"
                       /\ outbound' = Append(outbound,
                                         OutboundCall(reqFile[1], req.model, HF_API_TOKEN))
                       /\ pc' = "await"
                       /\ UNCHANGED << tempFile, caught, unlinkLog, response >>
                  ELSE /\ readResult' = "threw"
                       /\ CatchBlock(ReadError, unlinkLog, unlinkOk)
                       /\ UNCHANGED outbound
    /\ UNCHANGED << HF_API_TOKEN, req, reqFile, middlewareError, upstream, served >>

(* The handler after the await.  A resolved call: unlinkSync inside the try     *)
(* block, then the success response; if that unlinkSync throws, control passes  *)
(* to the catch block with the unlink error.  A rejected call: the catch block. *)
Settle(outcome, unlinkOk, unlinkAgainOk) ==
    /\ upstream' = << outcome >>
    /\ IF Resolves(outcome)
       THEN IF UnlinkResult(tempFile, unlinkOk) = "ok"
            THEN /\ tempFile' = UnlinkFile(tempFile, unlinkOk)
                 /\ unlinkLog' = Append(unlinkLog, "ok")
                 /\ response' = << SuccessBody(outbound[Len(outbound)].model, reqFile[1]) >>
                 /\ pc' = "responded"
                 /\ UNCHANGED caught
            ELSE CatchBlock(UnlinkError, Append(unlinkLog, "threw"), unlinkAgainOk)
       ELSE CatchBlock(AxiosError(outcome), unlinkLog, unlinkOk)
    /\ UNCHANGED outbound

\* a variant that repeats the call once when the upstream says the model is loading
UpstreamReplyRetrying ==
    /\ pc = "await"
    /\ \E outcome \in UpstreamOutcomes, unlinkOk \in BOOLEAN, unlinkAgainOk \in BOOLEAN :
          IF outcome.kind = "response" /\ outcome.status = 503 /\ Len(outbound) < 2
          THEN /\ outbound' = Append(outbound, outbound[Len(outbound)])
               /\ UNCHANGED << pc, upstream, tempFile, unlinkLog, response, caught >>
          ELSE Settle(outcome, unlinkOk, unlinkAgainOk)
    /\ UNCHANGED << HF_API_TOKEN, req, reqFile, middlewareError, readResult, served >>

UpstreamReply ==
    /\ pc = "await"
    /\ \E outcome \in UpstreamOutcomes, unlinkOk \in BOOLEAN, unlinkAgainOk \in BOOLEAN :
          Settle(outcome, unlinkOk, unlinkAgainOk)
    /\ UNCHANGED << HF_API_TOKEN, req, reqFile, middlewareError, readResult, served >>

\* the response has gone out; the request's scope ends
Complete ==
    /\ pc = "responded"
    /\ pc' = "idle"
    /\ served' = served + 1
    /\ req' = NoRequest
    /\ reqFile' = <<>>
    /\ tempFile' = "none"
    /\ middlewareError' = <<>>
    /\ readResult' = "none"
    /\ outbound' = <<>>
    /\ upstream' = <<>>
    /\ caught' = <<>>
    /\ unlinkLog' = <<>>
    /\ response' = NoResponse
    /\ UNCHANGED HF_API_TOKEN

Next ==
    \/ Arrive
    \/ Multer
    \/ ErrorMiddleware
    \/ TranscribeHandler
    \/ UpstreamReply
    \/ Complete

Spec == Init /\ [][Next]_vars

----------------------------------------------------------------------------
(* Properties *)

Responded == pc = "responded"

\* the request passed both early returns: the try block was entered
ReachedRelay == readResult # "none"

LastUnlink == unlinkLog[Len(unlinkLog)]

(* C1, as stated: for every request that reaches the relay step, the temp      *)
(* upload file no longer exists when the response is sent.                     *)
C1_TempFileGoneAtResponse ==
    (Responded /\ ReachedRelay) => tempFile # "exists"

(* C1, amended: for every request that reaches the relay step, the handler has *)
(* called unlinkSync on the temp file before the response is sent, and the     *)
(* file still exists at that moment only if the last unlinkSync call threw.    *)
C1_CleanupAttemptedAtResponse ==
    (Responded /\ ReachedRelay) =>
        /\ Len(unlinkLog) >= 1
        /\ tempFile \in { "exists", "deleted" }
        /\ (tempFile = "exists" => LastUnlink = "threw")
        /\ (tempFile = "deleted" => LastUnlink = "ok")

C1_Witness ==
    /\ Responded
    /\ readResult = "threw"
    /\ tempFile = "deleted"
    /\ unlinkLog = << "ok" >>

(* C2: a request with an uploaded file, made while no credential is            *)
(* configured, has its temp file deleted before the 'Server configuration      *)
(* error' response is returned.                                                *)
C2_TempFileGoneOnConfigError ==
    (Responded /\ reqFile # <<>> /\ HF_API_TOKEN = "") =>
        /\ response[1].error = "Server configuration error"
        /\ tempFile # "exists"

(* C3: a request without an uploaded file is answered with HTTP 400 and an     *)
(* error body, and no outbound call (nor file read) is made for it, whether or *)
(* not a credential is configured.                                             *)
C3_NoFileIs400WithoutCall ==
    (pc # "idle" /\ req.part = <<>>) =>
        /\ upstreamCalls = 0
        /\ readResult = "none"
        /\ pc \in { "multer", "handler", "responded" }
        /\ Responded =>
              /\ response[1].status = 400
              /\ response[1].success = FALSE
              /\ response[1].error = "No audio file uploaded"

C3_Witness ==
    /\ Responded
    /\ req.part = <<>>
    /\ HF_API_TOKEN = ""
    /\ response = << NoFileResponse >>

(* C4: a request with a file, made while no credential is configured, is       *)
(* answered with HTTP 500 'Server configuration error', and no outbound call   *)
(* is made for it.                                                             *)
C4_NoTokenIs500WithoutCall ==
    (reqFile # <<>> /\ HF_API_TOKEN = "") =>
        /\ upstreamCalls = 0
        /\ upstream = <<>>
        /\ pc \in { "handler", "responded" }
        /\ Responded =>
              /\ response[1].status = 500
              /\ response[1].error = "Server configuration error"

C4_Witness ==
    /\ Responded
    /\ reqFile # <<>>
    /\ HF_API_TOKEN = ""
    /\ response = << NoTokenResponse >>
    /\ upstreamCalls = 0

\* the request passed both early returns
Validated == reqFile # <<>> /\ HF_API_TOKEN # ""

(* C5, as stated: exactly one outbound call is made for every request that     *)
(* passes validation (file present, credential configured).                    *)
C5_ExactlyOneCallPerValidatedRequest ==
    (Responded /\ Validated) => upstreamCalls = 1

(* C5, amended: at most one outbound call is ever made for a request, and only *)
(* for a validated one; a validated request whose temp file was read gets      *)
(* exactly one call and one whose read failed gets none; once the call has     *)
(* settled (error status, timeout or success) the response follows without a   *)
(* further call.                                                               *)
C5_OneCallWhenReadNoRetry ==
    /\ upstreamCalls <= 1
    /\ upstreamCalls = 1 => (Validated /\ readResult = "ok")
    /\ (Responded /\ Validated) =>
           upstreamCalls = (IF readResult = "ok" THEN 1 ELSE 0)
    /\ upstream # <<>> => (Responded /\ upstreamCalls = 1)

C5_Witness ==
    /\ Responded
    /\ Validated
    /\ upstream # <<>>
    /\ upstream[1].kind = "response"
    /\ upstream[1].status = 503
    /\ upstreamCalls = 1

\* the upstream answered the outbound call with an HTTP error status
UpstreamErrorStatus ==
    upstream # <<>> /\ upstream[1].kind = "response" /\ ~ Resolves(upstream[1])

C7_TimeoutIs408LocalFailureIs500 ==
    /\ (Responded /\ upstream # <<>> /\ upstream[1].kind = "timeout") =>
          /\ response[1].status = 408
          /\ response[1].error = "Request timeout"
    /\ (Responded /\ caught # <<>> /\ caught[1].response = <<>>
                  /\ caught[1].code # "ECONNABORTED") =>
          /\ response[1].status = 500
          /\ response[1].error = "Internal server error"
          /\ response[1].details = caught[1].message

C7_Witness ==
    /\ Responded
    /\ readResult = "threw"
    /\ caught = << ReadError >>
    /\ response[1].status = 500
    /\ response[1].error = "Internal server error"

\* the response the handler sends when every unlinkSync call succeeds
ResponseWhenDeletionSucceeds ==
    IF readResult = "threw" THEN ErrorResponse(ReadError)
    ELSE IF Resolves(upstream[1])
    THEN SuccessBody(outbound[1].model, reqFile[1])
    ELSE ErrorResponse(AxiosError(upstream[1]))

(* C8: a failure of temp-file deletion never changes the response: on every    *)
(* path through the relay, the success path included, the response equals the  *)
(* one sent when deletion succeeds.                                            *)
C8_DeletionFailureNeverChangesResponse ==
    (Responded /\ ReachedRelay) => response = << ResponseWhenDeletionSucceeds >>

\* the acceptance rule of the intake, as the claim states it
AcceptableUpload(file) ==
    \/ file.mimetype.type = "audio"
    \/ file.fieldname = "audio"
    \/ ToLower(file.originalname.ext) \in { "mp3", "wav", "ogg", "m4a", "aac" }

(* C9: an upload reaches the handler only if its media type starts with        *)
(* 'audio/', or its field name is the upload field, or its extension is one of *)
(* mp3, wav, ogg, m4a, aac; any other upload is rejected with a 4xx response   *)
(* and reaches neither the file read nor the outbound call.                    *)
C9_RejectedUploadIsClientError ==
    /\ reqFile # <<>> => AcceptableUpload(reqFile[1])
    /\ (req.part # <<>> /\ ~ AcceptableUpload(req.part[1])) =>
          /\ readResult = "none"
          /\ upstreamCalls = 0
          /\ Responded => (response[1].status >= 400 /\ response[1].status <= 499)

\* model resolution as the claim states it
CanonicalIdentifier(query) ==
    IF query # <<>> /\ query[1] \in DOMAIN HF_MODELS
    THEN HF_MODELS[query[1]]
    ELSE HF_MODELS["whisper-large"]

(* C10: the model identifier in the outbound URL is the canonical identifier   *)
(* of the caller's key when the key is in the mapping and the default key's    *)
(* identifier for every other key (absent, empty, or not in the mapping);      *)
(* metadata.model of a success response is that same value.                    *)
C10_ModelResolution ==
    /\ \A i \in 1..Len(outbound) : outbound[i].model = CanonicalIdentifier(req.model)
    /\ (Responded /\ response[1].success) =>
          response[1].metadata[1].model = CanonicalIdentifier(req.model)

\* content-type resolution as the claim states it; the filename extension is
\* the one path.extname reports
ResolvedContentType(mimetype, ext) ==
    IF mimetype # NoMime /\ mimetype # Mime("application", "octet-stream")
    THEN mimetype
    ELSE IF ext \in { "mp3", "MP3" }   THEN Mime("audio", "mpeg")
    ELSE IF ext = "wav"                THEN Mime("audio", "wav")
    ELSE IF ext = "ogg"                THEN Mime("audio", "ogg")
    ELSE IF ext = "m4a"                THEN Mime("audio", "mp4")
    ELSE IF ext \in { "flac", "FLAC" } THEN Mime("audio", "flac")
    ELSE Mime("audio", "wav")

(* C11: the Content-Type of the outbound call is the declared media type when  *)
(* that is present and not 'application/octet-stream'; otherwise it depends    *)
(* only on the filename extension, compared case-insensitively: mp3 gives      *)
(* audio/mpeg, wav audio/wav, ogg audio/ogg, m4a audio/mp4, flac audio/flac,   *)
(* and every other or missing extension audio/wav.                             *)
C11_ContentTypeResolution ==
    \A i \in 1..Len(outbound) :
        outbound[i].contentType =
            ResolvedContentType(reqFile[1].mimetype, extname(reqFile[1].originalname))

C11_Witness ==
    /\ outbound # <<>>
    /\ reqFile[1].mimetype = Mime("application", "octet-stream")
    /\ reqFile[1].originalname = [ stem |-> "clip", ext |-> "FLAC" ]
    /\ outbound[1].contentType = Mime("audio", "flac")

====
